---- MODULE Spec2Model ----
(***************************************************************************)
(* A model of the uart16550 driver: the line-control bit fields, the       *)
(* multiplexed registers A (receive buffer / transmit holding / divisor    *)
(* low) and B (interrupt enable / divisor high), the configuration         *)
(* accessors of src/lib.rs and the polled transport and the handle of      *)
(* src/blocking.rs.                                                        *)
(*                                                                         *)
(* The register block is the record `uart`:                                *)
(*   lcr    the line-control register, one field per bit field             *)
(*   dll    divisor latch, low byte      dlh   divisor latch, high byte    *)
(*   ier    the interrupt-enable register                                  *)
(*   lsr    the line-status values the coming status polls will observe    *)
(*   rx     the bytes the receiver will deliver to the coming reads of A   *)
(*   trace  the register accesses of the operation in progress / last run  *)
(***************************************************************************)
EXTENDS Integers, Sequences, FiniteSets, TLC

VARIABLES uart, last, prev, pc

vars == <<uart, last, prev, pc>>

(***************************************************************************)
(* Bounds of the model.                                                    *)
(***************************************************************************)
\* longest buffer handed to read / write
MaxBuf == 2
\* most not-empty polls a flush is made to see before the transmitter drains
MaxSpin == 2

\* one register is one byte; u16::to_le_bytes / from_le_bytes split at 2^8
ByteMod == 256

\* the 16-bit divisors the operations are called with
Divisors == {258, 65535}
\* the bytes the receiver delivers and the caller transmits
DataBytes == {65, 66}
\* divisor latch and interrupt-enable contents at power-on
InitDll == {12}
InitDlh == {0, 1}
InitIer == {5}

(***************************************************************************)
(* RegisterLayout: the bit fields of line-control and line-status and the  *)
(* byte views of the two multiplexed registers (crate::register).          *)
(***************************************************************************)
WordLengths == {"Bits5", "Bits6", "Bits7", "Bits8"}
StopBitsSet == {"Bit1", "Bit2"}
Parities    == {"Odd", "Even"}
ParityModes == {"None", "Odd", "Even", "High", "Low"}

\* every value of the line-control register
LcrValues ==
    [wls : 0..3, stb : BOOLEAN, pen : BOOLEAN, eps : BOOLEAN,
     stick : BOOLEAN, dlab : BOOLEAN]

\* every value a line-status poll can observe: the transmitter cannot be
\* empty (shift register and holding register) while the holding register
\* is still occupied
LsrAll ==
    {s \in [dr : BOOLEAN, thre : BOOLEAN, temt : BOOLEAN] : s.temt => s.thre}

\* the values the status source is made to report: any two of the three
\* flags differ in one of them
LsrValues ==
    {s \in LsrAll : (s.dr /\ s.thre) => s.temt}

enable_divisor_latch_access(lcr) == [lcr EXCEPT !.dlab = TRUE]
is_parity_enabled(lcr)       == lcr.pen
enable_parity(lcr)           == [lcr EXCEPT !.pen = TRUE]
disable_parity(lcr)          == [lcr EXCEPT !.pen = FALSE]
is_stick_parity_enabled(lcr) == lcr.stick
enable_stick_parity(lcr)     == [lcr EXCEPT !.stick = TRUE]
disable_stick_parity(lcr)    == [lcr EXCEPT !.stick = FALSE]
parity(lcr)                  == IF lcr.eps THEN "Even" ELSE "Odd"
set_parity(lcr, p)           == [lcr EXCEPT !.eps = (p = "Even")]
lcr_stop_bits(lcr)           == IF lcr.stb THEN "Bit2" ELSE "Bit1"
lcr_set_stop_bits(lcr, s)    == [lcr EXCEPT !.stb = (s = "Bit2")]
lcr_word_length(lcr) ==
    CASE lcr.wls = 0 -> "Bits5" [] lcr.wls = 1 -> "Bits6"
      [] lcr.wls = 2 -> "Bits7" [] OTHER -> "Bits8"
lcr_set_word_length(lcr, w) ==
    [lcr EXCEPT !.wls = CASE w = "Bits5" -> 0 [] w = "Bits6" -> 1
                          [] w = "Bits7" -> 2 [] OTHER -> 3]

is_data_ready(lsr)             == lsr.dr
is_transmitter_fifo_empty(lsr) == lsr.thre
is_transmitter_empty(lsr)      == lsr.temt

\* one-byte register values: each accessor views or replaces the whole byte
receiver_data(v)                  == v
set_transmitter_data(v, b)        == b
divisor_latch_low_byte(v)         == v
set_divisor_latch_low_byte(v, b)  == b
divisor_latch_high_byte(v)        == v
set_divisor_latch_high_byte(v, b) == b
RbrThrDllDefault == 0

(***************************************************************************)
(* The register block: volatile reads and writes.  Every access is         *)
(* appended to the trace with the divisor-latch-access bit it was made     *)
(* under.                                                                  *)
(***************************************************************************)
Access(u, reg, kind, val) ==
    [u EXCEPT !.trace = Append(@, [reg |-> reg, kind |-> kind, val |-> val,
                                   dlab |-> u.lcr.dlab])]

lcr_value(u) == u.lcr
lcr_read(u)  == Access(u, "lcr", "read", u.lcr)
lcr_write(u, v) == [Access(u, "lcr", "write", v) EXCEPT !.lcr = v]

\* a status poll observes the next value of the status source
lsr_value(u) == Head(u.lsr)
lsr_read(u)  == [Access(u, "lsr", "read", Head(u.lsr)) EXCEPT !.lsr = Tail(@)]

\* register A: divisor low byte while divisor-latch-access is set, else the
\* receive buffer (read: the next received byte is consumed) or the transmit
\* holding register (write)
rbr_thr_dll_value(u) ==
    IF u.lcr.dlab THEN u.dll
    ELSE IF u.rx = <<>> THEN 0 ELSE Head(u.rx)
rbr_thr_dll_read(u) ==
    LET v == Access(u, "A", "read", rbr_thr_dll_value(u))
    IN  IF u.lcr.dlab \/ u.rx = <<>> THEN v ELSE [v EXCEPT !.rx = Tail(@)]
rbr_thr_dll_write(u, b) ==
    LET v == Access(u, "A", "write", b)
    IN  IF u.lcr.dlab THEN [v EXCEPT !.dll = b] ELSE v

\* register B: divisor high byte while divisor-latch-access is set, else the
\* interrupt-enable register
ier_dlh_value(u) == IF u.lcr.dlab THEN u.dlh ELSE u.ier
ier_dlh_read(u)  == Access(u, "B", "read", ier_dlh_value(u))
ier_dlh_write(u, b) ==
    LET v == Access(u, "B", "write", b)
    IN  IF u.lcr.dlab THEN [v EXCEPT !.dlh = b] ELSE [v EXCEPT !.ier = b]

(***************************************************************************)
(* ConfigAccessor (src/lib.rs).  An accessor that returns a value is a     *)
(* record [u, ret]: the register block it leaves and what it returns.      *)
(***************************************************************************)
to_le_bytes(d)        == <<d % ByteMod, d \div ByteMod>>
\* the two bytes combined high byte first
from_be_bytes(lo, hi) == ByteMod * lo + hi
from_le_bytes(lo, hi) == lo + ByteMod * hi

divisor(u) ==
    LET lcr == lcr_value(u)
        u1  == lcr_read(u)
        u2  == lcr_write(u1, enable_divisor_latch_access(lcr))
        dll == divisor_latch_low_byte(rbr_thr_dll_value(u2))
        u3  == rbr_thr_dll_read(u2)
        dlh == divisor_latch_high_byte(ier_dlh_value(u3))
        u4  == ier_dlh_read(u3)
    IN  [u |-> u4, ret |-> from_le_bytes(dll, dlh)]

\* set_divisor without switching to the divisor latch first
set_divisor_no_latch_access(u, d) ==
    LET u1  == lcr_read(u)
        le  == to_le_bytes(d)
        dll == set_divisor_latch_low_byte(rbr_thr_dll_value(u1), le[1])
        u3  == rbr_thr_dll_read(u1)
        dlh == set_divisor_latch_high_byte(ier_dlh_value(u3), le[2])
        u4  == ier_dlh_read(u3)
        u5  == rbr_thr_dll_write(u4, dll)
        u6  == ier_dlh_write(u5, dlh)
    IN  lcr_write(u6, lcr_value(u))

\* set_divisor without the write-back of the saved line-control value
set_divisor_no_restore(u, d) ==
    LET lcr == lcr_value(u)
        u1  == lcr_read(u)
        le  == to_le_bytes(d)
        u2  == lcr_write(u1, enable_divisor_latch_access(lcr))
        dll == set_divisor_latch_low_byte(rbr_thr_dll_value(u2), le[1])
        u3  == rbr_thr_dll_read(u2)
        dlh == set_divisor_latch_high_byte(ier_dlh_value(u3), le[2])
        u4  == ier_dlh_read(u3)
        u5  == rbr_thr_dll_write(u4, dll)
    IN  ier_dlh_write(u5, dlh)

set_divisor(u, d) ==
    LET lcr == lcr_value(u)
        u1  == lcr_read(u)
        le  == to_le_bytes(d)
        u2  == lcr_write(u1, enable_divisor_latch_access(lcr))
        dll == set_divisor_latch_low_byte(rbr_thr_dll_value(u2), le[1])
        u3  == rbr_thr_dll_read(u2)
        dlh == set_divisor_latch_high_byte(ier_dlh_value(u3), le[2])
        u4  == ier_dlh_read(u3)
        u5  == rbr_thr_dll_write(u4, dll)
        u6  == ier_dlh_write(u5, dlh)
    IN  lcr_write(u6, lcr)

\* parity_mode with the two stick-parity modes taken for each other
parity_mode_stick_swapped(u) ==
    LET lcr == lcr_value(u)
        en  == is_parity_enabled(lcr)
        par == parity(lcr)
        stk == is_stick_parity_enabled(lcr)
    IN  [u |-> lcr_read(u),
         ret |-> CASE ~en -> "None"
                   [] en /\ par = "Even" /\ ~stk -> "Even"
                   [] en /\ par = "Odd"  /\ ~stk -> "Odd"
                   [] en /\ par = "Odd"  /\ stk  -> "Low"
                   [] en /\ par = "Even" /\ stk  -> "High"]

parity_mode(u) ==
    LET lcr == lcr_value(u)
        en  == is_parity_enabled(lcr)
        par == parity(lcr)
        stk == is_stick_parity_enabled(lcr)
    IN  [u |-> lcr_read(u),
         ret |-> CASE ~en -> "None"
                   [] en /\ par = "Even" /\ ~stk -> "Even"
                   [] en /\ par = "Odd"  /\ ~stk -> "Odd"
                   [] en /\ par = "Odd"  /\ stk  -> "High"
                   [] en /\ par = "Even" /\ stk  -> "Low"]

\* set_parity_mode that leaves stick-parity alone for Odd and Even
set_parity_mode_keep_stick(u, p) ==
    LET lcr == lcr_value(u)
        u1  == lcr_read(u)
        new == CASE p = "None" -> disable_parity(lcr)
                 [] p = "Odd"  -> set_parity(enable_parity(lcr), "Odd")
                 [] p = "Even" -> set_parity(enable_parity(lcr), "Even")
                 [] p = "High" ->
                      set_parity(enable_stick_parity(enable_parity(lcr)), "Odd")
                 [] p = "Low"  ->
                      set_parity(enable_stick_parity(enable_parity(lcr)), "Even")
    IN  lcr_write(u1, new)

set_parity_mode(u, p) ==
    LET lcr == lcr_value(u)
        u1  == lcr_read(u)
        new == CASE p = "None" -> disable_parity(lcr)
                 [] p = "Odd"  ->
                      set_parity(disable_stick_parity(enable_parity(lcr)), "Odd")
                 [] p = "Even" ->
                      set_parity(disable_stick_parity(enable_parity(lcr)), "Even")
                 [] p = "High" ->
                      set_parity(enable_stick_parity(enable_parity(lcr)), "Odd")
                 [] p = "Low"  ->
                      set_parity(enable_stick_parity(enable_parity(lcr)), "Even")
    IN  lcr_write(u1, new)

stop_bits(u) == [u |-> lcr_read(u), ret |-> lcr_stop_bits(lcr_value(u))]

\* set_stop_bits that builds the value anew instead of from the one read
set_stop_bits_from_default(u, s) ==
    lcr_write(lcr_read(u),
              lcr_set_stop_bits([wls |-> 0, stb |-> FALSE, pen |-> FALSE,
                                 eps |-> FALSE, stick |-> FALSE,
                                 dlab |-> FALSE], s))

set_stop_bits(u, s) ==
    lcr_write(lcr_read(u), lcr_set_stop_bits(lcr_value(u), s))

word_length(u) == [u |-> lcr_read(u), ret |-> lcr_word_length(lcr_value(u))]

set_word_length(u, w) ==
    lcr_write(lcr_read(u), lcr_set_word_length(lcr_value(u), w))

read_ready(u)  == [u |-> lsr_read(u), ret |-> is_data_ready(lsr_value(u))]

write_ready(u) ==
    [u |-> lsr_read(u), ret |-> is_transmitter_fifo_empty(lsr_value(u))]

(***************************************************************************)
(* BlockingTransport (src/blocking.rs).  A buffer is a sequence of bytes;  *)
(* the loops run over its slots in order.                                  *)
(***************************************************************************)
\* blocking_read that goes on to the next slot after a not-ready poll
RECURSIVE blocking_read_from_retry(_, _, _, _)
blocking_read_from_retry(u, buf, i, count) ==
    IF i > Len(buf) THEN [u |-> u, buf |-> buf, ret |-> count]
    ELSE LET s  == lsr_value(u)
             u1 == lsr_read(u)
         IN  IF is_data_ready(s)
             THEN LET ch == receiver_data(rbr_thr_dll_value(u1))
                      u2 == rbr_thr_dll_read(u1)
                  IN  blocking_read_from_retry(u2, [buf EXCEPT ![i] = ch],
                                               i + 1, count + 1)
             ELSE blocking_read_from_retry(u1, buf, i + 1, count)

RECURSIVE blocking_read_from(_, _, _, _)
blocking_read_from(u, buf, i, count) ==
    IF i > Len(buf) THEN [u |-> u, buf |-> buf, ret |-> count]
    ELSE LET s  == lsr_value(u)
             u1 == lsr_read(u)
         IN  IF is_data_ready(s)
             THEN LET ch == receiver_data(rbr_thr_dll_value(u1))
                      u2 == rbr_thr_dll_read(u1)
                  IN  blocking_read_from(u2, [buf EXCEPT ![i] = ch],
                                         i + 1, count + 1)
             ELSE [u |-> u1, buf |-> buf, ret |-> count]

blocking_read(u, buf) == blocking_read_from(u, buf, 1, 0)

\* blocking_write gated on transmit-empty instead of transmit-holding-empty
RECURSIVE blocking_write_from_when_drained(_, _, _, _)
blocking_write_from_when_drained(u, buf, i, count) ==
    IF i > Len(buf) THEN [u |-> u, ret |-> count]
    ELSE LET s  == lsr_value(u)
             u1 == lsr_read(u)
         IN  IF is_transmitter_empty(s)
             THEN LET thr == set_transmitter_data(RbrThrDllDefault, buf[i])
                      u2  == rbr_thr_dll_write(u1, thr)
                  IN  blocking_write_from_when_drained(u2, buf, i + 1,
                                                       count + 1)
             ELSE [u |-> u1, ret |-> count]

\* blocking_write that goes on to the next byte after a not-empty poll
RECURSIVE blocking_write_from_retry(_, _, _, _)
blocking_write_from_retry(u, buf, i, count) ==
    IF i > Len(buf) THEN [u |-> u, ret |-> count]
    ELSE LET s  == lsr_value(u)
             u1 == lsr_read(u)
         IN  IF is_transmitter_fifo_empty(s)
             THEN LET thr == set_transmitter_data(RbrThrDllDefault, buf[i])
                      u2  == rbr_thr_dll_write(u1, thr)
                  IN  blocking_write_from_retry(u2, buf, i + 1, count + 1)
             ELSE blocking_write_from_retry(u1, buf, i + 1, count)

RECURSIVE blocking_write_from(_, _, _, _)
blocking_write_from(u, buf, i, count) ==
    IF i > Len(buf) THEN [u |-> u, ret |-> count]
    ELSE LET s  == lsr_value(u)
             u1 == lsr_read(u)
         IN  IF is_transmitter_fifo_empty(s)
             THEN LET thr == set_transmitter_data(RbrThrDllDefault, buf[i])
                      u2  == rbr_thr_dll_write(u1, thr)
                  IN  blocking_write_from(u2, buf, i + 1, count + 1)
             ELSE [u |-> u1, ret |-> count]

blocking_write(u, buf) == blocking_write_from(u, buf, 1, 0)

\* one evaluation of the loop condition of blocking_flash: the poll, and
\* whether the loop is left
\* the loop of blocking_flash left on transmit-holding-empty
blocking_flash_poll_fifo_empty(u) ==
    [u |-> lsr_read(u), done |-> is_transmitter_fifo_empty(lsr_value(u))]

\* the loop of blocking_flash with its condition inverted
blocking_flash_poll_inverted(u) ==
    [u |-> lsr_read(u), done |-> ~is_transmitter_empty(lsr_value(u))]

blocking_flash_poll(u) ==
    [u |-> lsr_read(u), done |-> is_transmitter_empty(lsr_value(u))]

(***************************************************************************)
(* Config and the handle (src/lib.rs, src/blocking.rs).                    *)
(***************************************************************************)
\* Option<u16>: None is the empty sequence, Some(d) the sequence of d
None    == <<>>
Some(d) == <<d>>

Configs ==
    [divisor : {None} \cup {Some(d) : d \in Divisors},
     parity_mode : ParityModes,
     stop_bits : StopBitsSet, word_length : WordLengths]

Config_new ==
    [divisor |-> None, parity_mode |-> "None", stop_bits |-> "Bit1",
     word_length |-> "Bits8"]

\* construction that takes a missing divisor for the divisor 0
BlockingUart_new_default_divisor(u, config) ==
    LET u1 == IF config.divisor # None
              THEN set_divisor(u, config.divisor[1]) ELSE set_divisor(u, 0)
        u2 == set_parity_mode(u1, config.parity_mode)
        u3 == set_stop_bits(u2, config.stop_bits)
    IN  set_word_length(u3, config.word_length)

\* construction that applies the divisor after the line settings
BlockingUart_new_divisor_last(u, config) ==
    LET u1 == set_parity_mode(u, config.parity_mode)
        u2 == set_stop_bits(u1, config.stop_bits)
        u3 == set_word_length(u2, config.word_length)
    IN  IF config.divisor # None
        THEN set_divisor(u3, config.divisor[1]) ELSE u3

BlockingUart_new(u, config) ==
    LET u1 == IF config.divisor # None
              THEN set_divisor(u, config.divisor[1]) ELSE u
        u2 == set_parity_mode(u1, config.parity_mode)
        u3 == set_stop_bits(u2, config.stop_bits)
    IN  set_word_length(u3, config.word_length)

BlockingUart_config(u) ==
    LET d == divisor(u)
        p == parity_mode(d.u)
        s == stop_bits(p.u)
        w == word_length(s.u)
    IN  [u |-> w.u,
         ret |-> [divisor |-> Some(d.ret), parity_mode |-> p.ret,
                  stop_bits |-> s.ret, word_length |-> w.ret]]

\* the slots of a buffer before a read
BufFill == 0

\* nb::Result: Ok(()) / Ok(v) / Err(nb::Error::WouldBlock)
WouldBlock == <<"Err", "WouldBlock">>
OkUnit     == <<"Ok">>
Ok(v)      == <<"Ok", v>>

nb_read(u) ==
    LET r == blocking_read(u, <<BufFill>>)
    IN  [u |-> r.u, ret |-> IF r.ret = 0 THEN WouldBlock ELSE Ok(r.buf[1])]

nb_write(u, word) ==
    LET r == blocking_write(u, <<word>>)
    IN  [u |-> r.u, ret |-> IF r.ret = 0 THEN WouldBlock ELSE OkUnit]

\* the polling flush answering on transmit-holding-empty
nb_flush_fifo_empty(u) ==
    [u |-> lsr_read(u),
     ret |-> IF is_transmitter_fifo_empty(lsr_value(u)) THEN OkUnit
             ELSE WouldBlock]

nb_flush(u) ==
    [u |-> lsr_read(u),
     ret |-> IF is_transmitter_empty(lsr_value(u)) THEN OkUnit ELSE WouldBlock]

(***************************************************************************)
(* The state machine.  `last` is the call made last: its operation, its    *)
(* argument and what it returned; `prev` is the operation before it; pc is *)
(* "raw" while no handle has been constructed over the register block,     *)
(* "idle" between two calls on the handle and "flash" inside the loop of   *)
(* blocking_flash.                                                         *)
(***************************************************************************)
NoCall == [op |-> "none", arg |-> <<>>, ret |-> <<>>]

\* what n status polls in a row may observe
Scripts(n) == [1..n -> LsrValues]
\* a read or a write makes no poll after the first that finds its flag
\* clear: the status source is taken to stay as that poll saw it
ReadScripts(n) ==
    {s \in Scripts(n) : \A i \in 1..(n - 1) : ~s[i].dr => s[i + 1] = s[i]}
WriteScripts(n) ==
    {s \in Scripts(n) : \A i \in 1..(n - 1) : ~s[i].thre => s[i + 1] = s[i]}
\* n bytes in a row: consecutive values from a first byte
Stream(b, n) == [i \in 1..n |-> b + i - 1]
Streams(n)   == {Stream(b, n) : b \in DataBytes}

\* an operation starts with an empty trace, against the status source and
\* the receiver it is going to meet
Begin(u, lsr, rx) == [u EXCEPT !.trace = <<>>, !.lsr = lsr, !.rx = rx]
\* what it did not consume is not the next operation's
End(u) == [u EXCEPT !.lsr = <<>>, !.rx = <<>>]

Call(op, arg, ret) == last' = [op |-> op, arg |-> arg, ret |-> ret]

\* the history variable prev, kept where a claim is about two calls in a row
Track   == prev' = last.op
NoTrack == UNCHANGED prev

Init ==
    /\ uart \in [lcr : LcrValues, dll : InitDll, dlh : InitDlh, ier : InitIer,
                 lsr : {<<>>}, rx : {<<>>}, trace : {<<>>}]
    /\ last = NoCall
    /\ prev = "none"
    /\ pc = "raw"

\* ---- the accessors of src/lib.rs, called on the register block ----
SetDivisor ==
    \E d \in Divisors :
        /\ pc = "raw"
        /\ uart' = End(set_divisor(Begin(uart, <<>>, <<>>), d))
        /\ Call("set_divisor", d, <<>>)
        /\ UNCHANGED pc

GetDivisor ==
    LET r == divisor(Begin(uart, <<>>, <<>>))
    IN  /\ pc = "raw"
        /\ uart' = End(r.u)
        /\ Call("divisor", <<>>, r.ret)
        /\ UNCHANGED pc

SetParityMode ==
    \E p \in ParityModes :
        /\ pc = "raw"
        /\ uart' = End(set_parity_mode(Begin(uart, <<>>, <<>>), p))
        /\ Call("set_parity_mode", p, <<>>)
        /\ UNCHANGED pc

GetParityMode ==
    LET r == parity_mode(Begin(uart, <<>>, <<>>))
    IN  /\ pc = "raw"
        /\ uart' = End(r.u)
        /\ Call("parity_mode", <<>>, r.ret)
        /\ UNCHANGED pc

SetStopBits ==
    \E s \in StopBitsSet :
        /\ pc = "raw"
        /\ uart' = End(set_stop_bits(Begin(uart, <<>>, <<>>), s))
        /\ Call("set_stop_bits", s, <<>>)
        /\ UNCHANGED pc

GetStopBits ==
    LET r == stop_bits(Begin(uart, <<>>, <<>>))
    IN  /\ pc = "raw"
        /\ uart' = End(r.u)
        /\ Call("stop_bits", <<>>, r.ret)
        /\ UNCHANGED pc

SetWordLength ==
    \E w \in WordLengths :
        /\ pc = "raw"
        /\ uart' = End(set_word_length(Begin(uart, <<>>, <<>>), w))
        /\ Call("set_word_length", w, <<>>)
        /\ UNCHANGED pc

GetWordLength ==
    LET r == word_length(Begin(uart, <<>>, <<>>))
    IN  /\ pc = "raw"
        /\ uart' = End(r.u)
        /\ Call("word_length", <<>>, r.ret)
        /\ UNCHANGED pc

\* ---- the handle of src/blocking.rs ----
\* the handle takes the register block over for its lifetime
New(cs) ==
    \E c \in cs :
        /\ pc = "raw"
        /\ uart' = End(BlockingUart_new(Begin(uart, <<>>, <<>>), c))
        /\ Call("new", c, <<>>)
        /\ pc' = "idle"

GetConfig ==
    LET r == BlockingUart_config(Begin(uart, <<>>, <<>>))
    IN  /\ pc = "idle"
        /\ uart' = End(r.u)
        /\ Call("config", <<>>, r.ret)
        /\ UNCHANGED pc

Read ==
    \E n \in 0..MaxBuf :
      \E lsr \in ReadScripts(n), rx \in Streams(n) :
        LET buf == [i \in 1..n |-> BufFill]
            r   == blocking_read(Begin(uart, lsr, rx), buf)
        IN  /\ pc = "idle"
            /\ uart' = End(r.u)
            /\ Call("read", buf, [count |-> r.ret, buf |-> r.buf])
            /\ UNCHANGED pc

Write ==
    \E n \in 0..MaxBuf :
      \E lsr \in WriteScripts(n), buf \in Streams(n) :
        LET r == blocking_write(Begin(uart, lsr, <<>>), buf)
        IN  /\ pc = "idle"
            /\ uart' = End(r.u)
            /\ Call("write", buf, r.ret)
            /\ UNCHANGED pc

\* BlockingUart::flash / embedded_io::Write::flush: entering blocking_flash
Flash ==
    /\ pc = "idle"
    /\ uart' = Begin(uart, <<>>, <<>>)
    /\ Call("flash", <<>>, "spinning")
    /\ pc' = "flash"

\* one turn of its loop; the transmitter drains after at most MaxSpin
\* not-empty polls
FlashPoll ==
    \E s \in LsrValues :
        LET r == blocking_flash_poll([uart EXCEPT !.lsr = <<s>>])
        IN  /\ pc = "flash"
            /\ (Len(uart.trace) >= MaxSpin => s.temt)
            /\ uart' = End(r.u)
            /\ last' = [last EXCEPT !.ret = IF r.done THEN "returned"
                                                     ELSE "spinning"]
            /\ pc' = IF r.done THEN "idle" ELSE "flash"

ReadReady ==
    \E s \in LsrValues :
        LET r == read_ready(Begin(uart, <<s>>, <<>>))
        IN  /\ pc = "idle"
            /\ uart' = End(r.u)
            /\ Call("read_ready", <<>>, r.ret)
            /\ UNCHANGED pc

WriteReady ==
    \E s \in LsrValues :
        LET r == write_ready(Begin(uart, <<s>>, <<>>))
        IN  /\ pc = "idle"
            /\ uart' = End(r.u)
            /\ Call("write_ready", <<>>, r.ret)
            /\ UNCHANGED pc

NbRead ==
    \E s \in LsrValues, b \in DataBytes :
        LET r == nb_read(Begin(uart, <<s>>, <<b>>))
        IN  /\ pc = "idle"
            /\ uart' = End(r.u)
            /\ Call("nb_read", <<>>, r.ret)
            /\ UNCHANGED pc

NbWrite ==
    \E s \in LsrValues, word \in DataBytes :
        LET r == nb_write(Begin(uart, <<s>>, <<>>), word)
        IN  /\ pc = "idle"
            /\ uart' = End(r.u)
            /\ Call("nb_write", word, r.ret)
            /\ UNCHANGED pc

NbFlush ==
    \E s \in LsrValues :
        LET r == nb_flush(Begin(uart, <<s>>, <<>>))
        IN  /\ pc = "idle"
            /\ uart' = End(r.u)
            /\ Call("nb_flush", <<>>, r.ret)
            /\ UNCHANGED pc

\* the configurations a handle is constructed with in Spec
ConfigSamples ==
    {Config_new,
     [divisor |-> Some(258), parity_mode |-> "High", stop_bits |-> "Bit2",
      word_length |-> "Bits5"]}

\* the public interface: construction, then calls on the handle
Next ==
    \/ New(ConfigSamples) /\ NoTrack
    \/ GetConfig /\ NoTrack
    \/ Read /\ NoTrack
    \/ Write /\ NoTrack
    \/ Flash /\ NoTrack
    \/ FlashPoll /\ NoTrack
    \/ ReadReady /\ NoTrack
    \/ WriteReady /\ NoTrack
    \/ NbRead /\ NoTrack
    \/ NbWrite /\ NoTrack
    \/ NbFlush /\ NoTrack

Spec == Init /\ [][Next]_vars

\* the configuration accessors alone, on the bare register block
NextCfg ==
    \/ SetDivisor /\ Track
    \/ GetDivisor /\ Track
    \/ SetParityMode /\ Track
    \/ GetParityMode /\ Track
    \/ SetStopBits /\ Track
    \/ GetStopBits /\ Track
    \/ SetWordLength /\ Track
    \/ GetWordLength /\ Track

SpecCfg == Init /\ [][NextCfg]_vars

\* construction with every configuration, and config()
NextNew ==
    \/ New(Configs) /\ Track
    \/ GetConfig /\ Track

SpecNew == Init /\ [][NextNew]_vars

\* set_parity_mode and parity_mode alone, from a line-control value with
\* stick-parity clear
InitStickClear == Init /\ ~uart.lcr.stick

NextParity ==
    \/ SetParityMode /\ Track
    \/ GetParityMode /\ Track

SpecParity == InitStickClear /\ [][NextParity]_vars

\* ---- the blocking flush against a transmitter with a state of its own ----
\* uart.lsr holds the one value the line-status register shows; the
\* transmitter (and the receiver) change it when they please
Transmit ==
    \E s \in LsrValues :
        /\ uart.lsr # <<s>>
        /\ uart' = [uart EXCEPT !.lsr = <<s>>]
        /\ UNCHANGED <<last, prev, pc>>

FlashEnter ==
    /\ pc = "idle"
    /\ uart' = Begin(uart, uart.lsr, <<>>)
    /\ Call("flash", <<>>, <<>>)
    /\ pc' = "flash"
    /\ UNCHANGED prev

\* one turn of the loop of blocking_flash; the trace keeps the poll of this
\* turn only, and the status stays as the poll saw it; the call has no
\* result until it returns Ok(())
FlashTurn ==
    LET r == blocking_flash_poll([uart EXCEPT !.trace = <<>>])
    IN  /\ pc = "flash"
        /\ uart.lsr # <<>>
        /\ uart' = [r.u EXCEPT !.lsr = uart.lsr]
        /\ last' = [last EXCEPT !.ret = IF r.done THEN OkUnit ELSE <<>>]
        /\ pc' = IF r.done THEN "idle" ELSE "flash"
        /\ UNCHANGED prev

NextFlush ==
    \/ New(ConfigSamples) /\ NoTrack
    \/ Transmit
    \/ FlashEnter
    \/ FlashTurn

\* the processor goes on executing the loop it is in
SpecFlush == Init /\ [][NextFlush]_vars /\ WF_vars(FlashTurn)

(***************************************************************************)
(* Properties.                                                             *)
(***************************************************************************)
\* the accesses of one kind to one register, in the order they were made
Accesses(trace, reg, kind) ==
    SelectSeq(trace, LAMBDA e : e.reg = reg /\ e.kind = kind)

Values(acc) == [i \in 1..Len(acc) |-> acc[i].val]

DataPathOps == {"read", "write", "flash", "nb_read", "nb_write", "nb_flush",
                "read_ready", "write_ready"}

\* C1: every operation of the public interface returns with the
\* divisor-latch-access bit as it found it, so that, the bit being clear
\* when a data-path operation is entered, none of its accesses to register A
\* is made with the bit set.
C1_LatchAccessRestored ==
    [][/\ uart'.lcr.dlab = uart.lcr.dlab
       /\ (~uart.lcr.dlab /\ last'.op \in DataPathOps) =>
            \A i \in 1..Len(uart'.trace) :
                uart'.trace[i].reg = "A" => ~uart'.trace[i].dlab]_vars

\* C2: divisor() called right after set_divisor(d) returns d.
C2_SetThenGetDivisor ==
    [][(last.op = "set_divisor" /\ last'.op = "divisor")
          => last'.ret = last.arg]_vars

\* divisor() has returned 258 right after set_divisor(258), the latch having
\* held another value at power-on
C2_Witness ==
    /\ last.op = "divisor"
    /\ prev = "set_divisor"
    /\ last.ret = 258
    /\ uart.dll = 2
    /\ uart.dlh = 1

\* C3: set_divisor(d) leaves line-control and interrupt-enable as they were,
\* leaves d mod 256 in the low and d div 256 in the high byte of the divisor
\* latch, touches registers A and B only under divisor-latch-access, and ends
\* with the write-back of the line-control value it found.
C3_SetDivisorFrame ==
    [][last'.op = "set_divisor" =>
         LET t == uart'.trace
         IN  /\ uart'.lcr = uart.lcr
             /\ uart'.ier = uart.ier
             /\ uart'.dll = last'.arg % ByteMod
             /\ uart'.dlh = last'.arg \div ByteMod
             /\ \A i \in 1..Len(t) : t[i].reg \in {"A", "B"} => t[i].dlab
             /\ t[Len(t)].reg = "lcr"
             /\ t[Len(t)].kind = "write"
             /\ t[Len(t)].val = uart.lcr]_vars

\* set_divisor(258) has run on a line-control value with divisor-latch-access
\* clear and parity, stick parity and two stop bits set
C3_Witness ==
    /\ last.op = "set_divisor"
    /\ last.arg = 258
    /\ uart.dll = 2
    /\ uart.dlh = 1
    /\ ~uart.lcr.dlab
    /\ uart.lcr.pen
    /\ uart.lcr.stick
    /\ uart.lcr.stb

\* C4: parity_mode() called right after set_parity_mode(p) returns p.
C4_SetThenGetParity ==
    [][(last.op = "set_parity_mode" /\ last'.op = "parity_mode")
          => last'.ret = last.arg]_vars

\* None is read back right after set_parity_mode(None), made on a
\* line-control value that had, and keeps, stick-parity set
C4_Witness ==
    /\ last.op = "parity_mode"
    /\ prev = "set_parity_mode"
    /\ last.ret = "None"
    /\ uart.lcr.stick

\* C5: from a line-control value with stick-parity clear, no sequence of
\* set_parity_mode calls leaves parity-enable clear with stick-parity set.
C5_NoStickWithoutEnable == ~(uart.lcr.stick /\ ~uart.lcr.pen)

Polls(trace) == Values(Accesses(trace, "lsr", "read"))

Min(a, b) == IF a < b THEN a ELSE b

\* C6: read(buf) on N slots returns the number k of polls that observed
\* data-ready before the first that did not (or before the buffer was full),
\* has read register A k times, holds the bytes so delivered in buf[1..k] in
\* the order of delivery and leaves buf[k+1..N] as it was; no data-ready at
\* the first poll gives 0 and no read of register A.
C6_ReadBurst ==
    last.op = "read" =>
        LET n     == Len(last.arg)
            k     == last.ret.count
            polls == Polls(uart.trace)
            reads == Values(Accesses(uart.trace, "A", "read"))
        IN  /\ k \in 0..n
            /\ Len(polls) = Min(k + 1, n)
            /\ \A i \in 1..k : polls[i].dr
            /\ k < n => ~polls[k + 1].dr
            /\ Len(reads) = k
            /\ Len(last.ret.buf) = n
            /\ \A i \in 1..k : last.ret.buf[i] = reads[i]
            /\ \A i \in (k + 1)..n : last.ret.buf[i] = last.arg[i]
            /\ Accesses(uart.trace, "A", "write") = <<>>

\* a read on two slots met data-ready once and then not: it returned 1 with
\* the delivered byte in the first slot and the second slot as before
C6_Witness ==
    /\ last.op = "read"
    /\ Len(last.arg) = 2
    /\ last.ret.count = 1
    /\ last.ret.buf = <<66, BufFill>>
    /\ ~uart.lcr.dlab
    /\ Len(uart.trace) = 3

\* C7: write(buf) of N bytes returns the number k of polls that observed
\* transmit-holding-empty before the first that did not (or before the buffer
\* ended), has written buf[1..k] to register A in that order and nothing
\* else, each write directly after a poll that observed
\* transmit-holding-empty.
C7_WriteBurst ==
    last.op = "write" =>
        LET n      == Len(last.arg)
            k      == last.ret
            t      == uart.trace
            polls  == Polls(t)
            writes == Values(Accesses(t, "A", "write"))
        IN  /\ k \in 0..n
            /\ Len(polls) = Min(k + 1, n)
            /\ \A i \in 1..k : polls[i].thre
            /\ k < n => ~polls[k + 1].thre
            /\ writes = SubSeq(last.arg, 1, k)
            /\ \A i \in 1..Len(t) :
                 (t[i].reg = "A") =>
                     /\ t[i].kind = "write"
                     /\ i > 1
                     /\ t[i - 1].reg = "lsr"
                     /\ t[i - 1].val.thre

\* a write of two bytes met transmit-holding-empty (with the transmitter not
\* yet empty) once and then not: it returned 1 having sent the first byte
C7_Witness ==
    /\ last.op = "write"
    /\ last.arg = <<65, 66>>
    /\ last.ret = 1
    /\ Values(Accesses(uart.trace, "A", "write")) = <<65>>
    /\ ~uart.trace[1].val.temt
    /\ ~uart.lcr.dlab

\* C8: a flush that has returned made F + 1 status polls, the first F of
\* which observed transmit-empty false and the last one true; a flush that
\* has not returned has only seen transmit-empty false; it makes no access
\* but status polls.
C8_FlushPolls ==
    last.op = "flash" =>
        LET t == uart.trace
        IN  /\ \A i \in 1..Len(t) : t[i].reg = "lsr" /\ t[i].kind = "read"
            /\ (last.ret = "returned") = (pc = "idle")
            /\ pc = "idle" =>
                 /\ Len(t) >= 1
                 /\ t[Len(t)].val.temt
                 /\ \A i \in 1..(Len(t) - 1) : ~t[i].val.temt
            /\ pc = "flash" => \A i \in 1..Len(t) : ~t[i].val.temt

\* a flush has returned after two polls that saw the transmitter busy (the
\* second with the holding register already empty) and a third that saw it
\* empty
C8_Witness ==
    /\ last.op = "flash"
    /\ pc = "idle"
    /\ Len(uart.trace) = 3
    /\ uart.trace[2].val.thre
    /\ ~uart.trace[2].val.temt
    /\ uart.trace[3].val.temt

IsConfigStep == last.op = "new" /\ last'.op = "config"

C10_PollingInterface ==
    LET t == uart.trace
        polled == /\ Len(t) >= 1
                  /\ t[1].reg = "lsr"
                  /\ Len(Polls(t)) = 1
    IN  /\ last.op \in {"nb_read", "nb_write", "nb_flush"} =>
              /\ polled
              /\ last.ret[1] \in {"Ok", "Err"}
              /\ last.ret[1] = "Err" => last.ret = WouldBlock
        /\ last.op = "nb_read" =>
              /\ (last.ret = WouldBlock) = ~t[1].val.dr
              /\ last.ret = WouldBlock => Len(t) = 1
              /\ last.ret # WouldBlock =>
                   /\ Len(t) = 2
                   /\ t[2].reg = "A" /\ t[2].kind = "read"
                   /\ last.ret = Ok(t[2].val)
        /\ last.op = "nb_write" =>
              /\ (last.ret = WouldBlock) = ~t[1].val.thre
              /\ last.ret = WouldBlock => Len(t) = 1
              /\ last.ret # WouldBlock =>
                   /\ Len(t) = 2
                   /\ t[2].reg = "A" /\ t[2].kind = "write"
                   /\ t[2].val = last.arg
                   /\ last.ret = OkUnit
        /\ last.op = "nb_flush" =>
              /\ Len(t) = 1
              /\ (last.ret = WouldBlock) = ~t[1].val.temt
              /\ last.ret # WouldBlock => last.ret = OkUnit

\* the single-word flush was would-block on a poll that saw the holding
\* register empty and the transmitter not yet empty
C10_Witness ==
    /\ last.op = "nb_flush"
    /\ last.ret = WouldBlock
    /\ uart.trace[1].val.thre
    /\ ~uart.trace[1].val.temt


\* the parity mode a line-control value stands for
ParityOf(v) ==
    IF ~v.pen THEN "None"
    ELSE IF v.stick THEN (IF v.eps THEN "Low" ELSE "High")
         ELSE (IF v.eps THEN "Even" ELSE "Odd")

ParityFlags(v) == <<v.pen, v.eps, v.stick>>

IsLcrWrite(e) == e.reg = "lcr" /\ e.kind = "write"

\* C11: the last three line-control writes of a construction are, in this
\* order, the parity write, the stop-bits write and the word-length write,
\* each the value read just before with its own field overwritten; the
\* writes to registers A and B (the divisor, two when one is supplied, none
\* otherwise) all come before the parity write, which is made with
\* divisor-latch-access as it was before the construction.
C11_ConstructionOrder ==
    last.op = "new" =>
        LET t  == uart.trace
            c  == last.arg
            iw == Len(t)
            is == Len(t) - 2
            ip == Len(t) - 4
            ab == {i \in 1..Len(t) : t[i].reg \in {"A", "B"} /\ t[i].kind = "write"}
        IN  /\ ip >= 2
            /\ \A i \in {ip, is, iw} :
                   /\ IsLcrWrite(t[i])
                   /\ t[i - 1].reg = "lcr" /\ t[i - 1].kind = "read"
            /\ ParityOf(t[ip].val) = c.parity_mode
            /\ [t[ip].val EXCEPT !.pen = FALSE, !.eps = FALSE, !.stick = FALSE]
                 = [t[ip - 1].val EXCEPT !.pen = FALSE, !.eps = FALSE,
                                         !.stick = FALSE]
            /\ t[is].val = [t[is - 1].val EXCEPT !.stb = (c.stop_bits = "Bit2")]
            /\ lcr_word_length(t[iw].val) = c.word_length
            /\ [t[iw].val EXCEPT !.wls = 0] = [t[iw - 1].val EXCEPT !.wls = 0]
            /\ Cardinality(ab) = IF c.divisor = None THEN 0 ELSE 2
            /\ \A i \in ab : i < ip /\ t[i].dlab
            /\ t[1].reg = "lcr" /\ t[1].kind = "read"
            /\ t[ip].dlab = t[1].val.dlab
            /\ t[ip].val.dlab = t[1].val.dlab

\* a construction with divisor 258 and Odd parity on a register block with
\* divisor-latch-access clear and stick parity set: thirteen accesses, the
\* divisor bytes written fifth and sixth, the parity write ninth
C11_Witness ==
    /\ last.op = "new"
    /\ last.arg.divisor = Some(258)
    /\ last.arg.parity_mode = "Odd"
    /\ Len(uart.trace) = 13
    /\ ~uart.trace[1].val.dlab
    /\ uart.trace[1].val.stick
    /\ uart.trace[5].reg = "A" /\ uart.trace[5].kind = "write"
    /\ uart.trace[6].reg = "B" /\ uart.trace[6].kind = "write"
    /\ IsLcrWrite(uart.trace[9])
    /\ ~uart.trace[9].val.stick


\* the trace of a setter: one read of line-control, then one write of it
ReadThenWriteLcr(t) ==
    /\ Len(t) = 2
    /\ t[1].reg = "lcr" /\ t[1].kind = "read"
    /\ IsLcrWrite(t[2])

\* the line-control value two setters leave, applied one after the other
AfterBoth(F(_, _), x, G(_, _), y) == G(F(uart, x), y).lcr

\* C12: set_stop_bits, set_word_length and set_parity_mode are each one read
\* and then one write of line-control; the value written, which is the value
\* left, is the value read but for the stop-bit flag, the word-length field
\* or the three parity flags respectively; the divisor latch and
\* interrupt-enable are unchanged and registers A and B are not accessed.
\* Any two of the setters leave the same line-control value in either order
\* (computed on each line-control value the register block can start with,
\* which is every one).
C12_SetterFrame ==
    [][/\ last'.op \in {"set_stop_bits", "set_word_length", "set_parity_mode"} =>
            /\ ReadThenWriteLcr(uart'.trace)
            /\ uart'.trace[1].val = uart.lcr
            /\ uart'.trace[2].val = uart'.lcr
            /\ uart'.dll = uart.dll
            /\ uart'.dlh = uart.dlh
            /\ uart'.ier = uart.ier
       /\ last'.op = "set_stop_bits" =>
            uart'.lcr = [uart.lcr EXCEPT !.stb = (last'.arg = "Bit2")]
       /\ last'.op = "set_word_length" =>
            /\ [uart'.lcr EXCEPT !.wls = 0] = [uart.lcr EXCEPT !.wls = 0]
            /\ uart'.lcr.wls + 5 =
                 CASE last'.arg = "Bits5" -> 5 [] last'.arg = "Bits6" -> 6
                   [] last'.arg = "Bits7" -> 7 [] last'.arg = "Bits8" -> 8
       /\ last'.op = "set_parity_mode" =>
            /\ [uart'.lcr EXCEPT !.pen = FALSE, !.eps = FALSE, !.stick = FALSE]
                 = [uart.lcr EXCEPT !.pen = FALSE, !.eps = FALSE,
                                    !.stick = FALSE]
            /\ ParityOf(uart'.lcr) = last'.arg
       /\ last.op = "none" =>
          \A s \in StopBitsSet, w \in WordLengths, p \in ParityModes :
            /\ AfterBoth(set_stop_bits, s, set_word_length, w)
                 = AfterBoth(set_word_length, w, set_stop_bits, s)
            /\ AfterBoth(set_stop_bits, s, set_parity_mode, p)
                 = AfterBoth(set_parity_mode, p, set_stop_bits, s)
            /\ AfterBoth(set_word_length, w, set_parity_mode, p)
                 = AfterBoth(set_parity_mode, p, set_word_length, w)]_vars

\* set_stop_bits(Bit2) has run right after set_word_length on a line-control
\* value with Low parity and divisor-latch-access set: 7-bit words, the
\* parity and the latch access are still there
C12_Witness ==
    /\ last.op = "set_stop_bits"
    /\ last.arg = "Bit2"
    /\ prev = "set_word_length"
    /\ uart.lcr = [wls |-> 2, stb |-> TRUE, pen |-> TRUE, eps |-> TRUE,
                   stick |-> TRUE, dlab |-> TRUE]
    /\ ~uart.trace[1].val.stb


\* C13: parity_mode answers for each of the eight combinations of
\* (parity-enable, even-parity select, stick-parity): None when parity-enable
\* is clear, else Even or Odd by the select flag when stick-parity is clear,
\* else High for select Odd and Low for select Even; set_parity_mode leaves
\* the flags (enable, select, stick) that stand for the mode it was given:
\* enable clear for None, (set, Odd, clear) for Odd, (set, Even, clear) for
\* Even, (set, Odd, set) for High, (set, Even, set) for Low.
C13_ParityCoding ==
    [][/\ last'.op = "parity_mode" =>
            LET f == uart.lcr
            IN  /\ last'.ret \in ParityModes
                /\ ~f.pen => last'.ret = "None"
                /\ (f.pen /\ ~f.stick /\ f.eps)  => last'.ret = "Even"
                /\ (f.pen /\ ~f.stick /\ ~f.eps) => last'.ret = "Odd"
                /\ (f.pen /\ f.stick /\ ~f.eps)  => last'.ret = "High"
                /\ (f.pen /\ f.stick /\ f.eps)   => last'.ret = "Low"
                /\ uart'.lcr = uart.lcr
       /\ last'.op = "set_parity_mode" =>
            LET g == ParityFlags(uart'.lcr)
            IN  CASE last'.arg = "None" -> ~uart'.lcr.pen
                  [] last'.arg = "Odd"  -> g = <<TRUE, FALSE, FALSE>>
                  [] last'.arg = "Even" -> g = <<TRUE, TRUE, FALSE>>
                  [] last'.arg = "High" -> g = <<TRUE, FALSE, TRUE>>
                  [] last'.arg = "Low"  -> g = <<TRUE, TRUE, TRUE>>]_vars

\* parity_mode has answered High on the flags (set, Odd, set), the first
\* call made on the register block
C13_Witness ==
    /\ last.op = "parity_mode"
    /\ prev = "none"
    /\ last.ret = "High"
    /\ ParityFlags(uart.lcr) = <<TRUE, FALSE, TRUE>>


\* C14: divisor() returns low + 256 * high of the divisor latch, read through
\* register A and then register B, both with divisor-latch-access set; it
\* writes only line-control, leaves the divisor latch and interrupt-enable
\* as they were and leaves line-control as it was but for the
\* divisor-latch-access bit, which it leaves set.
C14_GetDivisorFrame ==
    [][last'.op = "divisor" =>
         LET t == uart'.trace
         IN  /\ last'.ret = uart.dll + ByteMod * uart.dlh
             /\ Len(t) = 4
             /\ t[3] = [reg |-> "A", kind |-> "read", val |-> uart.dll,
                        dlab |-> TRUE]
             /\ t[4] = [reg |-> "B", kind |-> "read", val |-> uart.dlh,
                        dlab |-> TRUE]
             /\ \A i \in 1..Len(t) : t[i].kind = "write" => t[i].reg = "lcr"
             /\ uart'.dll = uart.dll
             /\ uart'.dlh = uart.dlh
             /\ uart'.ier = uart.ier
             /\ uart'.lcr = [uart.lcr EXCEPT !.dlab = TRUE]]_vars

\* divisor() has returned the 268 latched at power-on, as the first call on
\* a register block whose divisor-latch-access was clear
C14_Witness ==
    /\ last.op = "divisor"
    /\ prev = "none"
    /\ last.ret = 268
    /\ ~uart.trace[1].val.dlab
    /\ uart.lcr.dlab


\* C15: every operation but the blocking flush is over after a number of
\* register accesses fixed by its arguments: a read or write of N slots that
\* transfers k makes min(k + 1, N) status polls and k accesses to register
\* A, none of its polls following one that found the flag clear; a
\* construction makes 13 accesses with a divisor and 6 without, config() 7,
\* a readiness query 1, the single-word read and write 1 or 2 and the
\* single-word flush 1.
C15_BoundedAccesses ==
    LET t     == uart.trace
        polls == Polls(t)
    IN  /\ last.op = "read" =>
              /\ Len(polls) = Min(last.ret.count + 1, Len(last.arg))
              /\ Len(t) = Len(polls) + last.ret.count
              /\ \A i \in 1..(Len(polls) - 1) : polls[i].dr
        /\ last.op = "write" =>
              /\ Len(polls) = Min(last.ret + 1, Len(last.arg))
              /\ Len(t) = Len(polls) + last.ret
              /\ \A i \in 1..(Len(polls) - 1) : polls[i].thre
        /\ last.op = "new" =>
              Len(t) = IF last.arg.divisor = None THEN 6 ELSE 13
        /\ last.op = "config" => Len(t) = 7
        /\ last.op \in {"read_ready", "write_ready", "nb_flush"} =>
              Len(t) = 1 /\ Len(polls) = 1
        /\ last.op \in {"nb_read", "nb_write"} =>
              /\ Len(polls) = 1
              /\ Len(t) = IF last.ret = WouldBlock THEN 1 ELSE 2

\* a write of two bytes found the holding register occupied at its first
\* poll: it returned 0 after that single access
C15_Witness ==
    /\ last.op = "write"
    /\ Len(last.arg) = 2
    /\ last.ret = 0
    /\ Len(uart.trace) = 1
    /\ ~uart.trace[1].val.thre


\* the line-status register shows transmit-empty
TransmitEmpty == uart.lsr # <<>> /\ Head(uart.lsr).temt

\* C16: a blocking flush leaves its loop only by a poll that observes
\* transmit-empty, and then returns; so it does not return while
\* transmit-empty stays false; and if from some time on the transmitter
\* reports transmit-empty for good, every flush in progress returns.
C16_FlushReturns ==
    /\ [][(pc = "flash" /\ pc' # "flash") =>
            /\ TransmitEmpty
            /\ pc' = "idle"
            /\ last'.ret = OkUnit
            /\ Len(uart'.trace) = 1
            /\ uart'.trace[1].reg = "lsr"
            /\ uart'.trace[1].val.temt]_vars
    /\ (<>[]TransmitEmpty) => [](pc = "flash" => <>(pc = "idle"))

\* a flush has returned on a poll that saw the transmitter empty
C16_Witness ==
    /\ last.op = "flash"
    /\ last.ret = OkUnit
    /\ pc = "idle"
    /\ TransmitEmpty
    /\ uart.trace = <<[reg |-> "lsr", kind |-> "read", val |-> Head(uart.lsr),
                       dlab |-> uart.lcr.dlab]>>


\* the divisors handles are constructed with
ConstructedDivisors ==
    {c.divisor[1] : c \in {x \in ConfigSamples : x.divisor # None}}

\* C17: on a handle whose divisor latch holds the divisor d it was
\* constructed with, read, write, flush, the readiness queries and config()
\* leave the latch at d, and config() reports Some(d).  The calls looked at
\* are those entered with divisor-latch-access clear, or with the bit set by
\* the config() just before them, which found it clear.
C17_DivisorLatchKept ==
    [][(/\ pc # "raw"
        /\ last'.op \in DataPathOps \cup {"config"}
        /\ uart.dll + ByteMod * uart.dlh \in ConstructedDivisors
        /\ \/ ~uart.lcr.dlab
           \/ /\ last.op = "config"
              /\ uart.trace[1].reg = "lcr"
              /\ uart.trace[1].kind = "read"
              /\ ~uart.trace[1].val.dlab) =>
            /\ uart'.dll = uart.dll
            /\ uart'.dlh = uart.dlh
            /\ (last'.op = "config" =>
                    last'.ret.divisor = Some(uart.dll + ByteMod * uart.dlh))]_vars
====
